---- MODULE Spec2Model ----
(***************************************************************************)
(* Model of pdf_processor_v6.py: the resumable scan / inspect / write      *)
(* pipeline.  One controlling thread (process_pdfs), a pool of worker      *)
(* processes (process_single_pdf), one writer thread (csv_writer_thread),  *)
(* a bounded queue between them, and the CSV artifact on disk, which is    *)
(* the only state that survives from one run to the next.                  *)
(*                                                                         *)
(* The artifact is a sequence of tokens as they reach the file:            *)
(*   "H"    the header line                                                *)
(*   "R"    one complete data row (ends with a line terminator)            *)
(*   "Pin"  the beginning of a row, cut inside its file_path field         *)
(*   "Paf"  the beginning of a row, cut after its file_path field          *)
(* The writer never flushes: rows sit in the file object's buffer until    *)
(* the buffer spills or the file is closed.  A kill loses the buffer; the  *)
(* write that was in progress may have reached the file in part.  (A cut   *)
(* inside the header line is left out: the header is the first 80 bytes    *)
(* of the buffer and the model keeps it whole.)                            *)
(***************************************************************************)
EXTENDS Integers, Sequences, FiniteSets, TLC

\* ---- bounds of the model ----
\* files in the tree of the runs that are killed and resumed (Spec)
NumFiles == 3
\* runs of the program on the same artifact (Spec)
MaxRuns == 2
\* largest tree of the single run (RunSpec)
RunFiles == 5
\* the workers argument
Workers == 2
\* how far around each threshold the sizes and page counts of the inspected file go (InspectSpec)
Margin == 1

\* ---- program constants (scaled down: 1000 rows and 5000 batches in the source) ----
BATCH_WRITE_SIZE == 2
CSV_QUEUE_MAXSIZE == 1

\* the forms of root_path the program is started with: the current directory or an absolute directory
Roots == {".", "/r"}

VARIABLES
    nfiles,      \* number of PDF files in the tree
    root,        \* root_path of the runs
    exists,      \* the artifact exists on disk
    disk,        \* the artifact's content: tokens in file order
    run,         \* number of runs started so far
    resume,      \* the resume argument of the current run
    mpc,         \* position of the controlling thread in process_pdfs
    processed,   \* the ledger: set returned by load_processed_csv
    cursor,      \* next file the discovery generator will yield
    task,        \* state of the future of each file
    pool,        \* state of the ProcessPoolExecutor
    batch_rows,  \* results waiting in the aggregator's list
    csv_queue,   \* items in the Queue
    stats,       \* stats: "processed" and "category_counts"
    wpc,         \* position of the writer thread in csv_writer_thread
    file_exists, \* the writer's local file_exists
    rows,        \* rows of the dequeued batch not yet written
    buf,         \* tokens written to the file object and still in its buffer
    disk0,       \* history: the artifact when the current run started
    prevClean,   \* history: the previous run completed cleanly
    prevKilled,  \* history: the previous run was killed
    events,      \* history: shutdown events of the current run, in order
    puts,        \* history: every item put on the queue in the current run, in order
    received,    \* history: the results the aggregator took from as_completed, in order
    docs,        \* what each file of the tree is: the outcomes of inspecting it
    outcome,     \* process_single_pdf called on its own: what the call did
    platform,    \* IS_WINDOWS of the scan
    entries,     \* the directory entries under the scanned root
    spc,         \* position of find_pdf_files
    pending,     \* entries the running enumeration has not yet reported
    seen,        \* find_pdf_files' set of normalised paths
    yielded,     \* history: the paths find_pdf_files has yielded, in order
    pdf_batch,   \* v2 / v3: paths taken from the generator and not yet submitted
    v2,          \* the artifact as v2's write_csv_batch makes it of the same batches
    gen          \* gen_pdfs.py: its files, its progress marker and its run

vars == <<nfiles, root, exists, disk, run, resume, mpc, processed, cursor, task, pool,
          batch_rows, csv_queue, stats, wpc, file_exists, rows, buf,
          disk0, prevClean, prevKilled, events, puts, received,
          docs, outcome, platform, entries, spc, pending, seen, yielded,
          pdf_batch, v2, gen>>

persistent == <<nfiles, root, exists, disk>>

Files == 1 .. nfiles
mainVars == <<resume, mpc, processed, cursor, batch_rows, stats>>
writerVars == <<wpc, file_exists, rows, buf>>
histVars == <<disk0, prevClean, prevKilled>>
scanVars == <<platform, entries, spc, pending, seen, yielded>>
sideVars == <<pdf_batch, v2, gen>>
env == <<docs, outcome, scanVars, sideVars>>

\* ------------------------------------------------------------------------
\* Paths.  A path is <<directory prefix, file name>>.
\* ------------------------------------------------------------------------

\* find_pdf_files on Linux: `find str(Path(root)) -type f -iname *.pdf` prints root + "/" + name
FindPath(i) == IF root = "." THEN <<"./", i>> ELSE <<"/r/", i>>

\* str(Path(p)): pathlib drops a leading "./"
PathStr(p) == IF p[1] = "./" THEN [p EXCEPT ![1] = ""] ELSE p

\* os.path.normcase on POSIX returns its argument
normcase(p) == p

\* ------------------------------------------------------------------------
\* The artifact.
\* ------------------------------------------------------------------------
\* a token carries its line's first field (p) and, for a complete row, the whole record
NoFields == [file_path |-> <<"", 0>>, file_size_bytes |-> 0, can_open |-> FALSE,
             page_count |-> 0, processing_time |-> 0, error_message |-> "",
             category |-> ""]
HeaderTok == [k |-> "H", p |-> <<"file_path", 0>>, info |-> NoFields]
RowTok(res) == [k |-> "R", p |-> res.file_path, info |-> res]
PartTok(t, cut) == [k |-> cut, p |-> t.p, info |-> NoFields]

\* a line holding bytes that are not UTF-8 (written by another program, or damaged)
BadTok == [k |-> "B", p |-> <<"?", 0>>, info |-> NoFields]

IsComplete(t) == t.k \in {"H", "R", "B"}

\* position i of d is the first token of a line
LineStart(d, i) == i = 1 \/ IsComplete(d[i - 1])

\* the first field of the line that starts with token t
FirstField(t) == IF t.k = "Pin" THEN <<"?", t.p[2]>> ELSE t.p


\* the rows csv.DictReader makes of the lines d: the first line gives the field names;
\* a row's file_path is its first field when the first line is the header, and None
\* otherwise
ReadRows(d) ==
    IF d = <<>> THEN {}
    ELSE IF d[1] # HeaderTok THEN {}
    ELSE {normcase(FirstField(d[i])) : i \in {j \in 2 .. Len(d) : LineStart(d, j)}}

\* how many tokens of d the reader may hand over as whole lines: all of them, or, when
\* a line cannot be decoded, the lines of the blocks read before the block holding it
\* (decoding raises UnicodeDecodeError for the whole block)
Delivered(d) ==
    LET bad == {i \in 1 .. Len(d) : d[i].k = "B"}
    IN  IF bad = {} THEN {Len(d)}
        ELSE {n \in 0 .. Len(d) : /\ \A i \in bad : n < i
                                  /\ n = 0 \/ IsComplete(d[n])}

\* load_processed_csv: the sets it may return.  The exception of a failed read is
\* caught and the identities added until then are returned.
load_processed_csv(ex, d) ==
    IF ~ex THEN {{}}
    ELSE {ReadRows(SubSeq(d, 1, n)) : n \in Delivered(d)}

\* what a kill or a failed close leaves of the buffer b: its first j tokens, and
\* possibly the beginning of the row after them
Remains(b, j, cut) ==
    IF cut # "none" /\ j < Len(b) /\ b[j + 1].k = "R"
    THEN Append(SubSeq(b, 1, j), PartTok(b[j + 1], cut))
    ELSE SubSeq(b, 1, j)

Cuts == {"none", "Pin", "Paf"}

\* ------------------------------------------------------------------------
\* Queue items: a batch of results, or the sentinel None.
\* ------------------------------------------------------------------------
None == [none |-> TRUE, rows |-> <<>>]
Batch(rs) == [none |-> FALSE, rows |-> rs]

\* variant: Queue() with no maxsize - put never blocks
CanPutUnbounded(q) == TRUE

\* Queue.put returns only when the queue holds fewer than maxsize items
CanPut(q) == Len(q) < CSV_QUEUE_MAXSIZE

\* Queue.get returns only when the queue holds an item
CanGet(q) == Len(q) > 0

\* ------------------------------------------------------------------------
\* Inspecting one file: process_single_pdf.  A file is described by what each call
\* made on it does: "ok" (or the value it returns), or the class of the exception it
\* raises.
\* ------------------------------------------------------------------------
PAGE_COUNT_THRESHOLD == 100
FILE_SIZE_THRESHOLD_BYTES == 10 * 1024 * 1024

\* the classes of the exceptions stat and PyMuPDF raise, all derived from Exception
ExceptionClasses == {"OSError", "FileDataError", "RuntimeError"}

\* variant: except RuntimeError as e (FileDataError derives from RuntimeError)
except_RuntimeError(c) == c \in {"FileDataError", "RuntimeError"}

\* except Exception as e
except_Exception(c) == c \in ExceptionClasses

\* str(e) of the exception raised by the call named at; the messages of the operating
\* system and of PyMuPDF are not empty
str(at) ==
    CASE at = "stat" -> "No such file or directory"
      [] at = "open" -> "Failed to open file"
      [] at = "is_encrypted" -> "document closed"
      [] at = "page_count" -> "cannot load page tree"
      [] at = "close" -> "cannot close document"

\* variant: 'L' if info['page_count'] >= PAGE_COUNT_THRESHOLD
page_cat_ge(n) == IF n >= PAGE_COUNT_THRESHOLD THEN "L" ELSE "S"

\* page_cat = 'L' if info['page_count'] > PAGE_COUNT_THRESHOLD else 'S'
page_cat(n) == IF n > PAGE_COUNT_THRESHOLD THEN "L" ELSE "S"

\* size_cat = 'L' if size > FILE_SIZE_THRESHOLD_BYTES else 'S'
size_cat(n) == IF n > FILE_SIZE_THRESHOLD_BYTES THEN "L" ELSE "S"

\* f"{page_cat}-{size_cat}"
Category(pc, sc) ==
    IF pc = "L" THEN (IF sc = "L" THEN "L-L" ELSE "L-S")
    ELSE (IF sc = "L" THEN "S-L" ELSE "S-S")

\* the info dictionary as initialised
InitialInfo(p) ==
    [file_path |-> PathStr(p), file_size_bytes |-> 0, can_open |-> FALSE,
     page_count |-> 0, processing_time |-> 0, error_message |-> "", category |-> "N/A"]

\* the body of the with block; exc is the class of the exception that leaves it
\* ("" when none), at the call that raised it
WithBody(i1, d) ==
    IF d.enc \notin {"yes", "no"}
    THEN [info |-> i1, exc |-> d.enc, at |-> "is_encrypted"]
    ELSE IF d.enc = "yes"
    THEN [info |-> [i1 EXCEPT !.error_message = "encrypted"], exc |-> "", at |-> ""]
    ELSE IF d.pages # "ok"
    THEN [info |-> [i1 EXCEPT !.page_count = 0], exc |-> d.pages, at |-> "page_count"]
    ELSE [info |-> [i1 EXCEPT !.page_count = d.page_count,
                              !.can_open = TRUE,
                              !.category = Category(page_cat(d.page_count),
                                                    size_cat(d.size))],
          exc |-> "", at |-> ""]

\* the try block: stat, the size test, fitz.open, the with body, and the close of the
\* document when the with block is left (an exception raised by close replaces the
\* one that was leaving the block)
TryBody(p, d) ==
    IF d.stat # "ok"
    THEN [info |-> InitialInfo(p), exc |-> d.stat, at |-> "stat"]
    ELSE LET i1 == [InitialInfo(p) EXCEPT !.file_size_bytes = d.size]
         IN  IF d.size < 100
             THEN [info |-> [i1 EXCEPT !.error_message = "too small"],
                   exc |-> "", at |-> ""]
             ELSE IF d.open # "ok"
             THEN [info |-> i1, exc |-> d.open, at |-> "open"]
             ELSE IF d.close # "ok"
             THEN [info |-> WithBody(i1, d).info, exc |-> d.close, at |-> "close"]
             ELSE WithBody(i1, d)

\* process_single_pdf: the record it returns, or the exception it lets through
process_single_pdf(p, d) ==
    LET body == TryBody(p, d)
    IN  IF body.exc = ""
        THEN [raised |-> FALSE, info |-> body.info]
        ELSE IF except_Exception(body.exc)
        THEN [raised |-> FALSE, info |-> [body.info EXCEPT !.error_message = str(body.at)]]
        ELSE [raised |-> TRUE, info |-> body.info]

\* a readable PDF of 3 pages and 2000 bytes, and a file PyMuPDF cannot open
GoodDoc == [stat |-> "ok", size |-> 2000, open |-> "ok", enc |-> "no", pages |-> "ok",
            page_count |-> 3, close |-> "ok"]
CorruptDoc == [GoodDoc EXCEPT !.open = "FileDataError"]

\* stats as initialised by process_pdfs
NoStats == [processed |-> 0,
            category_counts |-> [c \in {"S-S", "S-L", "L-S", "L-L", "N/A"} |-> 0]]

\* stats["processed"] += 1; stats["category_counts"][res['category']] += 1
Counted(st, res) ==
    [processed |-> st.processed + 1,
     category_counts |-> [st.category_counts EXCEPT ![res.category] = @ + 1]]

Unconsumed == {i \in Files : task[i] \in {"queued", "running", "done", "failed"}}
Running == {i \in Files : task[i] = "running"}

\* ------------------------------------------------------------------------
\* Initial state: no artifact, no run in progress.
\* ------------------------------------------------------------------------
NoRun ==
    /\ resume = FALSE
    /\ processed = {}
    /\ cursor = 1
    /\ task = [i \in Files |-> "none"]
    /\ pool = "none"
    /\ batch_rows = <<>>
    /\ csv_queue = <<>>
    /\ stats = NoStats
    /\ wpc = "none"
    /\ file_exists = FALSE
    /\ rows = <<>>
    /\ buf = <<>>
    /\ events = <<>>
    /\ puts = <<>>
    /\ received = <<>>

\* process_single_pdf has not been called on its own
NotCalled == [called |-> FALSE, raised |-> FALSE, info |-> NoFields]

\* find_pdf_files is not being followed
NoScan ==
    /\ platform = "posix"
    /\ entries = <<>>
    /\ spc = "idle"
    /\ pending = {}
    /\ seen = {}
    /\ yielded = <<>>

\* gen_pdfs.py has not been started: no file generated, no progress marker
GenIdle == [pc |-> "idle", runs |-> 0, resume |-> FALSE, killed |-> FALSE, total |-> 0,
            chunk_size |-> 1, made |-> {}, saved |-> -1, generated_total |-> 0,
            k |-> 1, futures |-> <<>>]

\* neither the wave submission of v2 / v3 nor gen_pdfs.py is being followed
NoSide ==
    /\ pdf_batch = <<>>
    /\ v2 = [exists |-> FALSE, disk |-> <<>>]
    /\ gen = GenIdle

\* every file of the tree is a readable PDF
AllReadable ==
    /\ docs = [i \in Files |-> GoodDoc]
    /\ outcome = NotCalled
    /\ NoScan
    /\ NoSide

Init ==
    /\ nfiles = NumFiles
    /\ root \in Roots
    /\ exists = FALSE
    /\ disk = <<>>
    /\ run = 0
    /\ mpc = "idle"
    /\ NoRun
    /\ AllReadable
    /\ disk0 = <<>>
    /\ prevClean = FALSE
    /\ prevKilled = FALSE

\* ------------------------------------------------------------------------
\* The controlling thread: process_pdfs.
\* ------------------------------------------------------------------------

\* the memory of a process that has not yet run anything
FreshMemory ==
    /\ processed' = {}
    /\ cursor' = 1
    /\ task' = [i \in Files |-> "none"]
    /\ pool' = "none"
    /\ batch_rows' = <<>>
    /\ csv_queue' = <<>>
    /\ stats' = NoStats
    /\ wpc' = "none"
    /\ file_exists' = FALSE
    /\ rows' = <<>>
    /\ buf' = <<>>
    /\ events' = <<>>
    /\ puts' = <<>>
    /\ received' = <<>>

\* main() calls process_pdfs(root_path, resume = not --no-resume) in a new process
StartRun(r) ==
    /\ mpc \in {"idle", "done"}
    /\ run < MaxRuns
    /\ run' = run + 1
    /\ resume' = r
    /\ mpc' = "load"
    /\ FreshMemory
    /\ disk0' = disk
    /\ prevClean' = (mpc = "done" /\ wpc = "exited")
    /\ prevKilled' = (mpc = "idle" /\ run > 0)
    /\ UNCHANGED <<persistent, env>>

\* processed = load_processed_csv(csv_file) if resume else set()
M_Load ==
    /\ mpc = "load"
    /\ processed' \in (IF resume THEN load_processed_csv(exists, disk) ELSE {{}})
    /\ mpc' = "start_writer"
    /\ UNCHANGED <<persistent, env, received, run, resume, cursor, task, pool, batch_rows, csv_queue,
                   stats, writerVars, histVars, events, puts>>

\* csv_queue = Queue(maxsize); writer_thread.start(); the executor is created
M_StartWriter ==
    /\ mpc = "start_writer"
    /\ csv_queue' = <<>>
    /\ wpc' = "open"
    /\ pool' = "open"
    /\ mpc' = "submit"
    /\ UNCHANGED <<persistent, env, received, run, resume, processed, cursor, task, batch_rows, stats,
                   file_exists, rows, buf, histVars, events, puts>>

\* futures = {executor.submit(process_single_pdf, p): p for p in pdf_gen}: one step of
\* the comprehension; every path that passes the ledger filter is submitted before the
\* first result is consumed
M_Submit ==
    /\ mpc = "submit"
    /\ IF cursor <= nfiles
       THEN /\ normcase(FindPath(cursor)) \notin processed => pool = "open"
            /\ task' = [task EXCEPT ![cursor] =
                           IF normcase(FindPath(cursor)) \notin processed
                           THEN "queued" ELSE "none"]
            /\ cursor' = cursor + 1
            /\ UNCHANGED <<mpc, events>>
       ELSE /\ mpc' = "collect"
            /\ events' = Append(events, "exhausted")
            /\ UNCHANGED <<task, cursor>>
    /\ UNCHANGED <<persistent, env, received, run, resume, processed, pool, batch_rows, csv_queue, stats,
                   writerVars, histVars, puts>>

\* variant: the loop keeps a result only if res['can_open']
M_CollectOpenable(i) ==
    /\ mpc = "collect"
    /\ task[i] = "done"
    /\ task' = [task EXCEPT ![i] = "consumed"]
    /\ LET res == process_single_pdf(FindPath(i), docs[i]).info
       IN  /\ batch_rows' = IF res.can_open THEN Append(batch_rows, res) ELSE batch_rows
           /\ received' = IF res.can_open THEN Append(received, res) ELSE received
    /\ stats' = Counted(stats, process_single_pdf(FindPath(i), docs[i]).info)
    /\ mpc' = IF Len(batch_rows') >= BATCH_WRITE_SIZE THEN "put" ELSE "collect"
    /\ UNCHANGED <<persistent, env, run, resume, processed, cursor, pool, csv_queue,
                   writerVars, histVars, events, puts>>

\* for fut in as_completed(futures): one iteration up to the batch-size test
M_Collect(i) ==
    /\ mpc = "collect"
    /\ task[i] = "done"
    /\ task' = [task EXCEPT ![i] = "consumed"]
    /\ batch_rows' = Append(batch_rows, process_single_pdf(FindPath(i), docs[i]).info)
    /\ received' = Append(received, process_single_pdf(FindPath(i), docs[i]).info)
    /\ stats' = Counted(stats, process_single_pdf(FindPath(i), docs[i]).info)
    /\ mpc' = IF Len(batch_rows') >= BATCH_WRITE_SIZE THEN "put" ELSE "collect"
    /\ UNCHANGED <<persistent, env, run, resume, processed, cursor, pool, csv_queue,
                   writerVars, histVars, events, puts>>

\* variant: csv_queue.put(batch_rows) - the list itself goes on the queue, and
\* batch_rows.clear() then empties the queued item
M_PutNoCopy ==
    /\ mpc = "put"
    /\ CanPut(csv_queue)
    /\ csv_queue' = Append(csv_queue, Batch(<<>>))
    /\ puts' = Append(puts, Batch(batch_rows))
    /\ batch_rows' = <<>>
    /\ mpc' = "collect"
    /\ UNCHANGED <<persistent, env, received, run, resume, processed, cursor, task, pool, stats,
                   writerVars, histVars, events>>

\* csv_queue.put(batch_rows.copy()); batch_rows.clear()
M_Put ==
    /\ mpc = "put"
    /\ CanPut(csv_queue)
    /\ csv_queue' = Append(csv_queue, Batch(batch_rows))
    /\ puts' = Append(puts, Batch(batch_rows))
    /\ batch_rows' = <<>>
    /\ mpc' = "collect"
    /\ UNCHANGED <<persistent, env, received, run, resume, processed, cursor, task, pool, stats,
                   writerVars, histVars, events>>

\* variant: the with block is left without draining as_completed
M_PoolExitEarly ==
    /\ mpc = "collect"
    /\ pool' = "shutdown"
    /\ events' = Append(events, "pool_down")
    /\ mpc' = "final"
    /\ UNCHANGED <<persistent, env, received, run, resume, processed, cursor, task, batch_rows, csv_queue,
                   stats, writerVars, histVars, puts>>

\* as_completed is exhausted and the with block ends: executor.shutdown(wait=True)
M_PoolExit ==
    /\ mpc = "collect"
    /\ Unconsumed = {}
    /\ pool' = "shutdown"
    /\ events' = Append(events, "pool_down")
    /\ mpc' = "final"
    /\ UNCHANGED <<persistent, env, received, run, resume, processed, cursor, task, batch_rows, csv_queue,
                   stats, writerVars, histVars, puts>>

\* variant: the controlling thread appends the last rows to the artifact itself
M_FinalDirect ==
    /\ mpc = "final"
    /\ disk' = disk \o [n \in 1 .. Len(batch_rows) |-> RowTok(batch_rows[n])]
    /\ mpc' = "put_none"
    /\ UNCHANGED <<nfiles, root, env, received, exists, run, resume, processed, cursor, task,
                   pool, batch_rows, csv_queue, stats, writerVars, histVars, events, puts>>

\* if batch_rows: csv_queue.put(batch_rows.copy())
M_Final ==
    /\ mpc = "final"
    /\ IF batch_rows # <<>>
       THEN /\ CanPut(csv_queue)
            /\ csv_queue' = Append(csv_queue, Batch(batch_rows))
            /\ puts' = Append(puts, Batch(batch_rows))
            /\ events' = Append(events, "final_batch")
       ELSE UNCHANGED <<csv_queue, events, puts>>
    /\ mpc' = "put_none"
    /\ UNCHANGED <<persistent, env, received, run, resume, processed, cursor, task, pool, batch_rows,
                   stats, writerVars, histVars>>

\* variant: process_pdfs goes to the join without putting the sentinel
M_PutNoneSkipped ==
    /\ mpc = "put_none"
    /\ mpc' = "join"
    /\ UNCHANGED <<persistent, env, received, run, resume, processed, cursor, task, pool,
                   batch_rows, csv_queue, stats, writerVars, histVars, events, puts>>

\* csv_queue.put(None)
M_PutNone ==
    /\ mpc = "put_none"
    /\ CanPut(csv_queue)
    /\ csv_queue' = Append(csv_queue, None)
    /\ puts' = Append(puts, None)
    /\ events' = Append(events, "sentinel")
    /\ mpc' = "join"
    /\ UNCHANGED <<persistent, env, received, run, resume, processed, cursor, task, pool, batch_rows,
                   stats, writerVars, histVars>>

\* writer_thread.join() returns once the thread is no longer alive, however it ended;
\* the summary is logged and process_pdfs returns normally
M_Join ==
    /\ mpc = "join"
    /\ wpc \in {"exited", "failed"}
    /\ mpc' = "done"
    /\ UNCHANGED <<persistent, env, received, run, resume, processed, cursor, task, pool, batch_rows,
                   csv_queue, stats, writerVars, histVars, events, puts>>

\* ------------------------------------------------------------------------
\* The worker pool.
\* ------------------------------------------------------------------------

\* a free worker process takes the oldest queued task
WorkerStart(i) ==
    /\ pool = "open"
    /\ task[i] = "queued"
    /\ \A j \in Files : task[j] = "queued" => i <= j
    /\ Cardinality(Running) < Workers
    /\ task' = [task EXCEPT ![i] = "running"]
    /\ UNCHANGED <<persistent, env, received, run, mainVars, pool, csv_queue, writerVars, histVars, events, puts>>

\* process_single_pdf returns and the future holds the result; had it raised, the
\* future would hold the exception
WorkerFinish(i) ==
    /\ task[i] = "running"
    /\ task' = [task EXCEPT ![i] =
                   IF process_single_pdf(FindPath(i), docs[i]).raised
                   THEN "failed" ELSE "done"]
    /\ UNCHANGED <<persistent, env, received, run, mainVars, pool, csv_queue, writerVars, histVars, events, puts>>

\* ------------------------------------------------------------------------
\* The writer thread: csv_writer_thread.
\* ------------------------------------------------------------------------

\* file_exists = os.path.exists(csv_file); open(csv_file, 'a') creates a missing file
W_Open ==
    /\ wpc = "open"
    /\ file_exists' = exists
    /\ exists' = TRUE
    /\ wpc' = "header"
    /\ UNCHANGED <<nfiles, root, env, received, disk, run, mainVars, task, pool, csv_queue, rows, buf,
                   histVars, events, puts>>

\* open raises OSError (directory missing, permission denied): the thread ends
W_OpenFail ==
    /\ wpc = "open"
    /\ file_exists' = exists
    /\ wpc' = "failed"
    /\ UNCHANGED <<persistent, env, received, run, mainVars, task, pool, csv_queue, rows, buf,
                   histVars, events, puts>>

\* if not file_exists: writer.writerow(header) - into the file object's buffer
W_Header ==
    /\ wpc = "header"
    /\ buf' = IF file_exists THEN buf ELSE Append(buf, HeaderTok)
    /\ wpc' = "get"
    /\ UNCHANGED <<persistent, env, received, run, mainVars, task, pool, csv_queue, file_exists, rows,
                   histVars, events, puts>>

\* variant: the writer polls the queue and leaves its loop when it finds it empty
W_GetNoWait ==
    /\ wpc = "get"
    /\ IF csv_queue = <<>> \/ Head(csv_queue).none
       THEN /\ wpc' = "close"
            /\ rows' = <<>>
            /\ csv_queue' = IF csv_queue = <<>> THEN csv_queue ELSE Tail(csv_queue)
       ELSE /\ wpc' = "write"
            /\ rows' = Head(csv_queue).rows
            /\ csv_queue' = Tail(csv_queue)
    /\ UNCHANGED <<persistent, env, received, run, mainVars, task, pool, file_exists, buf, histVars, events, puts>>

\* rows = queue.get(); if rows is None: break
W_Get ==
    /\ wpc = "get"
    /\ CanGet(csv_queue)
    /\ csv_queue' = Tail(csv_queue)
    /\ IF Head(csv_queue).none
       THEN /\ wpc' = "close"
            /\ rows' = <<>>
       ELSE /\ wpc' = "write"
            /\ rows' = Head(csv_queue).rows
    /\ UNCHANGED <<persistent, env, received, run, mainVars, task, pool, file_exists, buf, histVars, events, puts>>

\* variant: the writer takes the rows of a batch from its end (rows.pop())
W_WriteRowLast(spill) ==
    /\ wpc = "write"
    /\ rows # <<>>
    /\ LET b == Append(buf, RowTok(rows[Len(rows)]))
       IN  IF spill
           THEN disk' = disk \o b /\ buf' = <<>>
           ELSE buf' = b /\ UNCHANGED disk
    /\ rows' = SubSeq(rows, 1, Len(rows) - 1)
    /\ wpc' = IF Len(rows) = 1 THEN "get" ELSE "write"
    /\ UNCHANGED <<nfiles, root, env, received, exists, run, mainVars, task, pool, csv_queue,
                   file_exists, histVars, events, puts>>

\* writer.writerow(row) for the next row of the batch: the row goes to the buffer, and
\* the buffer spills to the file when it is full (spill); after the last row,
\* queue.task_done() and back to queue.get() - there is no flush
W_WriteRow(spill) ==
    /\ wpc = "write"
    /\ rows # <<>>
    /\ LET b == Append(buf, RowTok(Head(rows)))
       IN  IF spill
           THEN disk' = disk \o b /\ buf' = <<>>
           ELSE buf' = b /\ UNCHANGED disk
    /\ rows' = Tail(rows)
    /\ wpc' = IF Tail(rows) = <<>> THEN "get" ELSE "write"
    /\ UNCHANGED <<nfiles, root, env, received, exists, run, mainVars, task, pool, csv_queue, file_exists,
                   histVars, events, puts>>

\* writer.writerow raises OSError (disk full, I/O error): the with block closes the
\* file, which may still write part of the buffer, and the thread ends
W_WriteFail(j, cut) ==
    /\ wpc = "write"
    /\ rows # <<>>
    /\ j \in 0 .. Len(buf)
    /\ disk' = disk \o Remains(buf, j, cut)
    /\ buf' = <<>>
    /\ wpc' = "failed"
    /\ UNCHANGED <<nfiles, root, env, received, exists, run, mainVars, task, pool, csv_queue, file_exists, rows,
                   histVars, events, puts>>

\* the with block ends after break: the file is closed and its buffer written out
W_Close ==
    /\ wpc = "close"
    /\ disk' = disk \o buf
    /\ buf' = <<>>
    /\ wpc' = "exited"
    /\ events' = Append(events, "writer_exit")
    /\ UNCHANGED <<nfiles, root, env, received, exists, run, mainVars, task, pool, csv_queue, file_exists, rows,
                   histVars, puts>>

\* ------------------------------------------------------------------------
\* The environment: the process is killed.  Memory is lost; of the buffer, the first
\* j tokens and possibly a part of the next row had reached the file.
\* ------------------------------------------------------------------------
Kill(j, cut) ==
    /\ mpc \notin {"idle", "done"}
    /\ j \in 0 .. Len(buf)
    /\ disk' = disk \o Remains(buf, j, cut)
    /\ mpc' = "idle"
    /\ resume' = FALSE
    /\ FreshMemory
    /\ UNCHANGED <<nfiles, root, env, exists, run, histVars>>

Next ==
    \/ \E r \in BOOLEAN : StartRun(r)
    \/ M_Load
    \/ M_StartWriter
    \/ M_Submit
    \/ \E i \in Files : M_Collect(i)
    \/ M_Put
    \/ M_PoolExit
    \/ M_Final
    \/ M_PutNone
    \/ M_Join
    \/ \E i \in Files : WorkerStart(i)
    \/ \E i \in Files : WorkerFinish(i)
    \/ W_Open
    \/ W_OpenFail
    \/ W_Header
    \/ W_Get
    \/ \E spill \in BOOLEAN : W_WriteRow(spill)
    \/ \E j \in 0 .. Len(buf), cut \in Cuts : W_WriteFail(j, cut)
    \/ W_Close
    \/ \E j \in 0 .. Len(buf), cut \in Cuts : Kill(j, cut)

Spec == Init /\ [][Next]_vars

\* ------------------------------------------------------------------------
\* A worker process dies (killed by the operating system, crash inside PyMuPDF).
\* ------------------------------------------------------------------------

\* the executor notices the dead process, marks the pool broken and fails every future
\* that has not finished with BrokenProcessPool
WorkerCrash(i) ==
    /\ pool = "open"
    /\ task[i] = "running"
    /\ task' = [j \in Files |-> IF task[j] \in {"queued", "running"} THEN "failed" ELSE task[j]]
    /\ pool' = "broken"
    /\ UNCHANGED <<persistent, env, received, run, mainVars, csv_queue, writerVars, histVars,
                   events, puts>>

\* executor.submit on a broken pool, or fut.result() of a failed future, raises; nothing
\* in process_pdfs or main catches it: the with block shuts the executor down and the
\* exception leaves process_pdfs
M_Raise ==
    /\ \/ /\ mpc = "submit"
          /\ cursor <= nfiles
          /\ normcase(FindPath(cursor)) \notin processed
          /\ pool = "broken"
       \/ /\ mpc = "collect"
          /\ \E i \in Files : task[i] = "failed"
    /\ mpc' = "raised"
    /\ pool' = "shutdown"
    /\ UNCHANGED <<persistent, env, received, run, resume, processed, cursor, task, batch_rows,
                   csv_queue, stats, writerVars, histVars, events, puts>>

\* the interpreter exits with the traceback; the writer is a daemon thread and ends
\* with it wherever it is; of its buffer, j tokens and possibly a part of the next row
\* reach the file
M_Die(j, cut) ==
    /\ mpc = "raised"
    /\ j \in 0 .. Len(buf)
    /\ disk' = disk \o Remains(buf, j, cut)
    /\ buf' = <<>>
    /\ wpc' = IF wpc \in {"exited", "failed"} THEN wpc ELSE "killed"
    /\ mpc' = "dead"
    /\ UNCHANGED <<nfiles, root, env, received, exists, run, resume, processed, cursor, task,
                   pool, batch_rows, csv_queue, stats, file_exists, rows, histVars, events, puts>>

\* One run of the program, never killed, from no artifact, on a tree of any size up to
\* RunFiles.
InitRun ==
    /\ nfiles \in 0 .. RunFiles
    /\ root \in Roots
    /\ exists = FALSE
    /\ disk = <<>>
    /\ run = 0
    /\ mpc = "idle"
    /\ NoRun
    /\ AllReadable
    /\ disk0 = <<>>
    /\ prevClean = FALSE
    /\ prevKilled = FALSE

NextRun ==
    \/ \E r \in BOOLEAN : run = 0 /\ StartRun(r)
    \/ M_Load
    \/ M_StartWriter
    \/ M_Submit
    \/ \E i \in Files : M_Collect(i)
    \/ M_Put
    \/ M_PoolExit
    \/ M_Final
    \/ M_PutNone
    \/ M_Join
    \/ \E i \in Files : WorkerStart(i)
    \/ \E i \in Files : WorkerFinish(i)
    \/ W_Open
    \/ W_OpenFail
    \/ W_Header
    \/ W_Get
    \/ \E spill \in BOOLEAN : W_WriteRow(spill)
    \/ \E j \in 0 .. Len(buf), cut \in Cuts : W_WriteFail(j, cut)
    \/ W_Close

RunSpec == InitRun /\ [][NextRun]_vars

\* One run on a tree of up to LiveFiles files in which no I/O error occurs, with the
\* three parties scheduled fairly: the controlling thread, the writer thread and the
\* worker processes each take their next step when it stays possible (the operating
\* system schedules every runnable thread and process; every inspection call returns).
LiveFiles == 4

InitLive ==
    /\ nfiles \in 0 .. LiveFiles
    /\ root \in Roots
    /\ exists = FALSE
    /\ disk = <<>>
    /\ run = 0
    /\ mpc = "idle"
    /\ NoRun
    /\ AllReadable
    /\ disk0 = <<>>
    /\ prevClean = FALSE
    /\ prevKilled = FALSE

MainStep ==
    \/ M_Load
    \/ M_StartWriter
    \/ M_Submit
    \/ \E i \in Files : M_Collect(i)
    \/ M_Put
    \/ M_PoolExit
    \/ M_Final
    \/ M_PutNone
    \/ M_Join

WorkerStep ==
    \/ \E i \in Files : WorkerStart(i)
    \/ \E i \in Files : WorkerFinish(i)

WriterStep ==
    \/ W_Open
    \/ W_Header
    \/ W_Get
    \/ \E spill \in BOOLEAN : W_WriteRow(spill)
    \/ W_Close

NextLive ==
    \/ \E r \in BOOLEAN : run = 0 /\ StartRun(r)
    \/ MainStep
    \/ WorkerStep
    \/ WriterStep

LiveSpec ==
    /\ InitLive
    /\ [][NextLive]_vars
    /\ WF_vars(MainStep)
    /\ WF_vars(\E i \in Files : WorkerStart(i))
    /\ WF_vars(\E i \in Files : WorkerFinish(i))
    /\ WF_vars(WriterStep)

\* ------------------------------------------------------------------------
\* pdf_processor_v3.py: process_pdfs submits in waves of workers * 10 paths and drains
\* each wave before it takes the next path from the generator.  Its ledger load, its
\* writer thread and its workers are those of v6.  Beside it, v2 holds the artifact
\* as pdf_processor_v2.py leaves it: v2's process_pdfs is v3's with
\* write_csv_batch(csv_file, batch_rows) in the place of csv_queue.put(batch_rows.copy()).
\* ------------------------------------------------------------------------

\* largest tree of the run of v3 (V3Spec)
V3Files == 5

\* the factor of batch_size = workers * 10 (scaled down: 10 in the source)
WAVE_FACTOR == 1

batch_size == Workers * WAVE_FACTOR

\* v2's write_csv_batch on artifact a: nothing for no rows; else the file is opened in
\* append mode, the header written if the file did not exist, the rows written, and
\* the file closed
write_csv_batch(a, rs) ==
    IF rs = <<>> THEN a
    ELSE [exists |-> TRUE,
          disk |-> a.disk \o (IF a.exists THEN <<>> ELSE <<HeaderTok>>)
                         \o [n \in 1 .. Len(rs) |-> RowTok(rs[n])]]

\* the positions of the drain loop and of its put, in a full wave and in the remainder
DrainOf(m) == IF m \in {"wave_submit", "wave_drain", "wave_put"} THEN "wave_drain" ELSE "rest_drain"
PutOf(m) == IF m = "wave_drain" THEN "wave_put" ELSE "rest_put"

\* csv_queue = Queue(maxsize); writer_thread.start(); the executor is created
M3_StartWriter ==
    /\ mpc = "start_writer"
    /\ csv_queue' = <<>>
    /\ wpc' = "open"
    /\ pool' = "open"
    /\ mpc' = "gen"
    /\ UNCHANGED <<persistent, docs, outcome, scanVars, pdf_batch, v2, gen, received, run, resume,
                   processed, cursor, task, batch_rows, stats, file_exists, rows, buf, histVars,
                   events, puts>>

\* for pdf in pdf_gen: pdf_batch.append(pdf); if len(pdf_batch) >= batch_size
M3_Gen ==
    /\ mpc = "gen"
    /\ IF cursor <= nfiles
       THEN /\ cursor' = cursor + 1
            /\ pdf_batch' = IF normcase(FindPath(cursor)) \notin processed
                            THEN Append(pdf_batch, cursor) ELSE pdf_batch
            /\ mpc' = IF Len(pdf_batch') >= batch_size THEN "wave_submit" ELSE "gen"
            /\ UNCHANGED events
       ELSE /\ mpc' = "rest_submit"
            /\ events' = Append(events, "exhausted")
            /\ UNCHANGED <<cursor, pdf_batch>>
    /\ UNCHANGED <<persistent, docs, outcome, scanVars, v2, gen, received, run, resume, processed,
                   task, pool, batch_rows, csv_queue, stats, writerVars, histVars, puts>>

\* for p in pdf_batch: future_to_path[executor.submit(process_single_pdf, p)] = p
M3_Submit ==
    /\ mpc \in {"wave_submit", "rest_submit"}
    /\ IF pdf_batch # <<>>
       THEN /\ task' = [task EXCEPT ![Head(pdf_batch)] = "queued"]
            /\ pdf_batch' = Tail(pdf_batch)
            /\ UNCHANGED mpc
       ELSE /\ mpc' = DrainOf(mpc)
            /\ UNCHANGED <<task, pdf_batch>>
    /\ UNCHANGED <<persistent, docs, outcome, scanVars, v2, gen, received, run, resume, processed,
                   cursor, pool, batch_rows, csv_queue, stats, writerVars, histVars, events, puts>>

\* for future in as_completed(future_to_path): one iteration up to the batch-size test
M3_Collect(i) ==
    /\ mpc \in {"wave_drain", "rest_drain"}
    /\ task[i] = "done"
    /\ task' = [task EXCEPT ![i] = "consumed"]
    /\ batch_rows' = Append(batch_rows, process_single_pdf(FindPath(i), docs[i]).info)
    /\ received' = Append(received, process_single_pdf(FindPath(i), docs[i]).info)
    /\ stats' = Counted(stats, process_single_pdf(FindPath(i), docs[i]).info)
    /\ mpc' = IF Len(batch_rows') >= BATCH_WRITE_SIZE THEN PutOf(mpc) ELSE mpc
    /\ UNCHANGED <<persistent, env, run, resume, processed, cursor, pool, csv_queue,
                   writerVars, histVars, events, puts>>

\* csv_queue.put(batch_rows.copy()); batch_rows.clear() - in v2,
\* write_csv_batch(csv_file, batch_rows); batch_rows.clear()
M3_Put ==
    /\ mpc \in {"wave_put", "rest_put"}
    /\ CanPut(csv_queue)
    /\ csv_queue' = Append(csv_queue, Batch(batch_rows))
    /\ puts' = Append(puts, Batch(batch_rows))
    /\ v2' = write_csv_batch(v2, batch_rows)
    /\ batch_rows' = <<>>
    /\ mpc' = DrainOf(mpc)
    /\ UNCHANGED <<persistent, docs, outcome, scanVars, pdf_batch, gen, received, run, resume,
                   processed, cursor, task, pool, stats, writerVars, histVars, events>>

\* variant: the wave loop goes back to the generator without draining the wave
M3_DrainedEarly ==
    /\ mpc \in {"wave_drain", "rest_drain"}
    /\ mpc' = IF mpc = "wave_drain" THEN "gen" ELSE "final3"
    /\ UNCHANGED <<persistent, env, received, run, resume, processed, cursor, task, pool,
                   batch_rows, csv_queue, stats, writerVars, histVars, events, puts>>

\* as_completed is exhausted: future_to_path.clear() and the next path of the
\* generator, or, after the remainder, the final batch
M3_Drained ==
    /\ mpc \in {"wave_drain", "rest_drain"}
    /\ Unconsumed = {}
    /\ mpc' = IF mpc = "wave_drain" THEN "gen" ELSE "final3"
    /\ UNCHANGED <<persistent, env, received, run, resume, processed, cursor, task, pool,
                   batch_rows, csv_queue, stats, writerVars, histVars, events, puts>>

\* if batch_rows: csv_queue.put(batch_rows.copy()); batch_rows.clear() - in v2,
\* write_csv_batch(csv_file, batch_rows); batch_rows.clear()
M3_Final ==
    /\ mpc = "final3"
    /\ IF batch_rows # <<>>
       THEN /\ CanPut(csv_queue)
            /\ csv_queue' = Append(csv_queue, Batch(batch_rows))
            /\ puts' = Append(puts, Batch(batch_rows))
            /\ events' = Append(events, "final_batch")
       ELSE UNCHANGED <<csv_queue, events, puts>>
    /\ v2' = write_csv_batch(v2, batch_rows)
    /\ batch_rows' = <<>>
    /\ mpc' = "pool_exit3"
    /\ UNCHANGED <<persistent, docs, outcome, scanVars, pdf_batch, gen, received, run, resume,
                   processed, cursor, task, pool, stats, writerVars, histVars>>

\* the with block ends: executor.shutdown(wait=True)
M3_PoolExit ==
    /\ mpc = "pool_exit3"
    /\ pool' = "shutdown"
    /\ events' = Append(events, "pool_down")
    /\ mpc' = "put_none"
    /\ UNCHANGED <<persistent, env, received, run, resume, processed, cursor, task, batch_rows,
                   csv_queue, stats, writerVars, histVars, puts>>

\* One run of v3, never killed, on a tree of any size up to V3Files, that finds no
\* artifact, an empty one, or the header and the first file's row; v2 starts from
\* the same artifact.
InitV3 ==
    /\ nfiles \in 0 .. V3Files
    /\ root \in Roots
    /\ exists \in BOOLEAN
    /\ disk \in (IF exists
                 THEN {<<>>, <<HeaderTok, RowTok(process_single_pdf(FindPath(1), GoodDoc).info)>>}
                 ELSE {<<>>})
    /\ run = 0
    /\ mpc = "idle"
    /\ NoRun
    /\ docs = [i \in Files |-> GoodDoc]
    /\ outcome = NotCalled
    /\ NoScan
    /\ pdf_batch = <<>>
    /\ v2 = [exists |-> exists, disk |-> disk]
    /\ gen = GenIdle
    /\ disk0 = disk
    /\ prevClean = FALSE
    /\ prevKilled = FALSE

NextV3 ==
    \/ \E r \in BOOLEAN : run = 0 /\ StartRun(r)
    \/ M_Load
    \/ M3_StartWriter
    \/ M3_Gen
    \/ M3_Submit
    \/ \E i \in Files : M3_Collect(i)
    \/ M3_Put
    \/ M3_Drained
    \/ M3_Final
    \/ M3_PoolExit
    \/ M_PutNone
    \/ M_Join
    \/ \E i \in Files : WorkerStart(i)
    \/ \E i \in Files : WorkerFinish(i)
    \/ W_Open
    \/ W_OpenFail
    \/ W_Header
    \/ W_Get
    \/ \E spill \in BOOLEAN : W_WriteRow(spill)
    \/ \E j \in 0 .. Len(buf), cut \in Cuts : W_WriteFail(j, cut)
    \/ W_Close

V3Spec == InitV3 /\ [][NextV3]_vars

\* ------------------------------------------------------------------------
\* Enumeration: find_pdf_files.  The scanned directory holds up to ScanNames entries
\* whose names match *.pdf whatever the case; an entry is a regular file, a
\* directory or a symbolic link.  A scanned path is <<prefix, name, extension>>.
\* ------------------------------------------------------------------------
ScanNames == 2

EntryKinds ==
    {[kind |-> "absent", ext |-> "pdf"]}
        \cup [kind : {"file", "dir", "link"}, ext : {"pdf", "PDF"}]

\* what `find root -type f -iname *.pdf` reports: the regular files
FindSet == {n \in DOMAIN entries : entries[n].kind = "file"}

\* what root_path.rglob("*.[pP][dD][fF]") reports: every entry whose name matches
WalkSet == {n \in DOMAIN entries : entries[n].kind # "absent"}

\* the line find prints for entry n: the root argument, "/", the name
FindLine(n) == <<IF root = "." THEN "./" ELSE "/r/", n, entries[n].ext>>

\* str(pdf_path) of the path rglob yields for entry n
WalkStr(n) == PathStr(FindLine(n))

\* os.path.normcase on Windows lower-cases the path
ntpath_normcase(p) == [p EXCEPT ![3] = "pdf"]

\* os.path.normcase(p) on the platform of the scan
os_normcase(p) == IF platform = "windows" THEN ntpath_normcase(p) ELSE normcase(p)

\* root_path = Path(root_path); seen = set(); the platform test
ScanStart ==
    /\ spc = "idle"
    /\ seen' = {}
    /\ yielded' = <<>>
    /\ IF platform = "windows"
       THEN spc' = "walk" /\ pending' = WalkSet
       ELSE spc' = "find" /\ pending' = FindSet
    /\ UNCHANGED <<persistent, sideVars, docs, outcome, platform, entries, received, run, mainVars, task,
                   pool, csv_queue, writerVars, histVars, events, puts>>

\* one pass of a loop body on path p, reported by tool `by`: norm = normcase(p);
\* if norm in seen: continue; seen.add(norm); yield p
Emit(p, by) ==
    IF os_normcase(p) \in seen
    THEN UNCHANGED <<seen, yielded>>
    ELSE /\ seen' = seen \cup {os_normcase(p)}
         /\ yielded' = Append(yielded, [path |-> p, by |-> by])

\* for line in proc.stdout: one line of find's output
F_Line(n) ==
    /\ spc = "find"
    /\ n \in pending
    /\ pending' = pending \ {n}
    /\ Emit(FindLine(n), "find")
    /\ UNCHANGED <<persistent, sideVars, docs, outcome, platform, entries, spc, received, run, mainVars,
                   task, pool, csv_queue, writerVars, histVars, events, puts>>

\* find's output ends; find_pdf_files returns
F_End ==
    /\ spc = "find"
    /\ pending = {}
    /\ spc' = "done"
    /\ UNCHANGED <<persistent, sideVars, docs, outcome, platform, entries, pending, seen, yielded,
                   received, run, mainVars, task, pool, csv_queue, writerVars, histVars,
                   events, puts>>

\* Popen raises (no find on the system), or reading proc.stdout raises part-way (a
\* name that is not UTF-8): except Exception starts the rglob walk from the beginning,
\* with the same seen
F_Fail ==
    /\ spc = "find"
    /\ spc' = "fallback"
    /\ pending' = WalkSet
    /\ UNCHANGED <<persistent, sideVars, docs, outcome, platform, entries, seen, yielded, received, run,
                   mainVars, task, pool, csv_queue, writerVars, histVars, events, puts>>

\* variant: the fallback loop yields without consulting seen
R_PathUnseen(n) ==
    /\ spc \in {"walk", "fallback"}
    /\ n \in pending
    /\ pending' = pending \ {n}
    /\ yielded' = Append(yielded, [path |-> WalkStr(n), by |-> "rglob"])
    /\ seen' = seen \cup {os_normcase(WalkStr(n))}
    /\ UNCHANGED <<persistent, sideVars, docs, outcome, platform, entries, spc, received, run, mainVars,
                   task, pool, csv_queue, writerVars, histVars, events, puts>>

\* for pdf_path in root_path.rglob(...): one path of the walk (Windows, or the fallback)
R_Path(n) ==
    /\ spc \in {"walk", "fallback"}
    /\ n \in pending
    /\ pending' = pending \ {n}
    /\ Emit(WalkStr(n), "rglob")
    /\ UNCHANGED <<persistent, sideVars, docs, outcome, platform, entries, spc, received, run, mainVars,
                   task, pool, csv_queue, writerVars, histVars, events, puts>>

\* the walk ends; find_pdf_files returns
R_End ==
    /\ spc \in {"walk", "fallback"}
    /\ pending = {}
    /\ spc' = IF spc = "walk" THEN "done" ELSE "done_fallback"
    /\ UNCHANGED <<persistent, sideVars, docs, outcome, platform, entries, pending, seen, yielded,
                   received, run, mainVars, task, pool, csv_queue, writerVars, histVars,
                   events, puts>>

InitScan ==
    /\ nfiles = 0
    /\ root \in Roots
    /\ exists = FALSE
    /\ disk = <<>>
    /\ run = 0
    /\ mpc = "idle"
    /\ NoRun
    /\ docs = [i \in Files |-> GoodDoc]
    /\ outcome = NotCalled
    /\ platform \in {"posix", "windows"}
    /\ entries \in [1 .. ScanNames -> EntryKinds]
    /\ spc = "idle"
    /\ pending = {}
    /\ seen = {}
    /\ yielded = <<>>
    /\ NoSide
    /\ disk0 = <<>>
    /\ prevClean = FALSE
    /\ prevKilled = FALSE

NextScan ==
    \/ ScanStart
    \/ \E n \in 1 .. ScanNames : F_Line(n)
    \/ F_End
    \/ F_Fail
    \/ \E n \in 1 .. ScanNames : R_Path(n)
    \/ R_End

ScanSpec == InitScan /\ [][NextScan]_vars

\* The ledger load of a run that finds an artifact of up to MaxLines lines, each the
\* header, the row of a file of the tree, or a line that cannot be decoded.
MaxLines == 3

LedgerTokens ==
    {HeaderTok, BadTok}
        \cup {RowTok(process_single_pdf(FindPath(f), GoodDoc).info) : f \in Files}

Artifacts == UNION {[1 .. n -> LedgerTokens] : n \in 0 .. MaxLines}

InitLedger ==
    /\ nfiles = NumFiles
    /\ root \in Roots
    /\ exists \in BOOLEAN
    /\ disk \in (IF exists THEN Artifacts ELSE {<<>>})
    /\ run = 0
    /\ mpc = "idle"
    /\ NoRun
    /\ AllReadable
    /\ disk0 = <<>>
    /\ prevClean = FALSE
    /\ prevKilled = FALSE

NextLedger ==
    \/ \E r \in BOOLEAN : run = 0 /\ StartRun(r)
    \/ M_Load

LedgerSpec == InitLedger /\ [][NextLedger]_vars

\* One run, never killed, on a tree of NumFiles files, that finds what earlier runs
\* left: no artifact, an empty one, the header alone, the header and the first file's
\* row, or these followed by the beginning of the second file's row.
StartArtifacts ==
    LET r1 == RowTok(process_single_pdf(FindPath(1), GoodDoc).info)
        r2 == RowTok(process_single_pdf(FindPath(2), GoodDoc).info)
    IN  {<<>>, <<HeaderTok>>, <<HeaderTok, r1>>, <<HeaderTok, r1, PartTok(r2, "Paf")>>}

InitAppend ==
    /\ nfiles = NumFiles
    /\ root \in Roots
    /\ exists \in BOOLEAN
    /\ disk \in (IF exists THEN StartArtifacts ELSE {<<>>})
    /\ run = 0
    /\ mpc = "idle"
    /\ NoRun
    /\ AllReadable
    /\ disk0 = disk
    /\ prevClean = FALSE
    /\ prevKilled = FALSE

AppendSpec == InitAppend /\ [][NextRun]_vars

\* process_single_pdf called on one file, which may be anything: each of stat,
\* fitz.open, is_encrypted, page_count and the close of the document succeeds or
\* raises, and the size and the page count lie around the thresholds.
Sizes == ((100 - Margin) .. (100 + Margin))
           \cup ((FILE_SIZE_THRESHOLD_BYTES - Margin) .. (FILE_SIZE_THRESHOLD_BYTES + Margin))
PageCounts == (PAGE_COUNT_THRESHOLD - Margin) .. (PAGE_COUNT_THRESHOLD + Margin)
AllDocs == [stat : {"ok", "OSError"}, size : Sizes, open : {"ok", "FileDataError"},
            enc : {"no", "yes", "RuntimeError"}, pages : {"ok", "RuntimeError"},
            page_count : PageCounts, close : {"ok", "RuntimeError"}]

InitInspect ==
    /\ nfiles = 1
    /\ root \in Roots
    /\ exists = FALSE
    /\ disk = <<>>
    /\ run = 0
    /\ mpc = "idle"
    /\ NoRun
    /\ docs \in [Files -> AllDocs]
    /\ outcome = NotCalled
    /\ NoScan
    /\ NoSide
    /\ disk0 = <<>>
    /\ prevClean = FALSE
    /\ prevKilled = FALSE

\* the call process_single_pdf(path of file f)
Inspect(f) ==
    /\ ~outcome.called
    /\ LET r == process_single_pdf(FindPath(f), docs[f])
       IN  outcome' = [called |-> TRUE, raised |-> r.raised, info |-> r.info]
    /\ UNCHANGED <<persistent, sideVars, docs, scanVars, received, run, mainVars, task, pool, csv_queue,
                   writerVars, histVars, events, puts>>

NextInspect == \E f \in Files : Inspect(f)

InspectSpec == InitInspect /\ [][NextInspect]_vars

\* One run on a tree in which any file may be one PyMuPDF cannot open, and in which a
\* worker process may die.
InitFault ==
    /\ nfiles = NumFiles
    /\ root \in Roots
    /\ exists = FALSE
    /\ disk = <<>>
    /\ run = 0
    /\ mpc = "idle"
    /\ NoRun
    /\ docs \in [Files -> {GoodDoc, CorruptDoc}]
    /\ outcome = NotCalled
    /\ NoScan
    /\ NoSide
    /\ disk0 = <<>>
    /\ prevClean = FALSE
    /\ prevKilled = FALSE

NextFault ==
    \/ NextRun
    \/ \E i \in Files : WorkerCrash(i)
    \/ M_Raise
    \/ \E j \in 0 .. Len(buf), cut \in Cuts : M_Die(j, cut)

FaultSpec == InitFault /\ [][NextFault]_vars

\* ------------------------------------------------------------------------
\* Vocabulary of the properties.
\* ------------------------------------------------------------------------

\* the identity under which file f is recorded in the artifact
Identity(f) == normcase(process_single_pdf(FindPath(f), docs[f]).info.file_path)

\* the lines of artifact d that are data rows of identity id
RowsOf(d, id) ==
    {i \in 1 .. Len(d) : LineStart(d, i) /\ d[i].k # "H" /\ normcase(FirstField(d[i])) = id}

\* artifact d holds a complete row of identity id on a line of its own
WellFormedRow(d, id) ==
    \E i \in 1 .. Len(d) : LineStart(d, i) /\ d[i].k = "R" /\ d[i].p = id

\* the current run has returned normally and its writer closed the file
CleanlyCompleted == mpc = "done" /\ wpc = "exited"

\* the results held in memory: in completed futures not yet consumed, in the current
\* batch, and in the batches on the queue
HeldResults ==
    {process_single_pdf(FindPath(i), docs[i]).info : i \in {j \in Files : task[j] = "done"}}
    \cup {batch_rows[i] : i \in 1 .. Len(batch_rows)}
    \cup UNION {{csv_queue[i].rows[j] : j \in 1 .. Len(csv_queue[i].rows)} :
                i \in 1 .. Len(csv_queue)}

\* ------------------------------------------------------------------------
\* C1  Idempotent resume: a run with resume=True that follows a cleanly completed run
\* on the same tree submits no inspection task and appends nothing to the artifact.
\* ------------------------------------------------------------------------
IdempotentResume ==
    (prevClean /\ resume /\ mpc # "idle") =>
        /\ \A i \in Files : task[i] = "none"
        /\ disk = disk0

\* ------------------------------------------------------------------------
\* C2  No duplication: after any sequence of runs (resume on or off, completed or
\* killed), every identity has at most one data row in the artifact.
\* ------------------------------------------------------------------------
NoDuplication ==
    \A f \in Files : Cardinality(RowsOf(disk, Identity(f))) <= 1

\* ------------------------------------------------------------------------
\* C3  Header once: starting from no artifact, whenever a run with resume=True has
\* completed (whatever runs were killed before it), the artifact has exactly one header
\* row and it is the first line.
\* ------------------------------------------------------------------------
HeaderOnce ==
    (CleanlyCompleted /\ resume) =>
        /\ Len(disk) >= 1
        /\ disk[1] = HeaderTok
        /\ \A i \in 2 .. Len(disk) : disk[i].k # "H"

\* ------------------------------------------------------------------------
\* C4  Bounded memory: the number of results held in memory never exceeds
\* CSV_QUEUE_MAXSIZE x BATCH_WRITE_SIZE plus the number of in-flight worker tasks.
\* ------------------------------------------------------------------------
BoundedMemory ==
    Cardinality(HeldResults) <= CSV_QUEUE_MAXSIZE * BATCH_WRITE_SIZE + Cardinality(Running)

\* ------------------------------------------------------------------------
\* C5  Per-batch durability: whenever the writer asks the queue for the next batch,
\* every row of the batches it dequeued before has left the buffer for the file.
\* ------------------------------------------------------------------------
PerBatchDurability ==
    wpc = "get" => \A i \in 1 .. Len(buf) : buf[i].k # "R"

\* ------------------------------------------------------------------------
\* C6  Resume completeness: when a run was killed and the next run, with resume=True,
\* completes cleanly, every identity of the tree has a well-formed row in the artifact.
\* ------------------------------------------------------------------------
ResumeCompleteness ==
    (prevKilled /\ resume /\ CleanlyCompleted) =>
        \A f \in Files : WellFormedRow(disk, Identity(f))

\* ------------------------------------------------------------------------
\* C10  Writer failure is fatal and visible: process_pdfs never returns normally
\* after its writer thread has failed.
\* ------------------------------------------------------------------------
WriterFailureFatal ==
    mpc = "done" => wpc # "failed"

\* ------------------------------------------------------------------------
\* C7  Clean-shutdown ordering.
\* ------------------------------------------------------------------------
Occurred(e) == \E i \in 1 .. Len(events) : events[i] = e

\* the events of the run so far occurred in the order rank gives them
InRankOrder(rank) ==
    \A i, j \in 1 .. Len(events) : i < j => rank[events[i]] < rank[events[j]]

\* no step of the shutdown is skipped: what precedes each event has happened
ShutdownSteps ==
    /\ Occurred("pool_down") => Occurred("exhausted") /\ Unconsumed = {}
    /\ Occurred("final_batch") => Occurred("exhausted") /\ Unconsumed = {}
    /\ Occurred("sentinel") =>
          /\ Occurred("pool_down")
          /\ batch_rows # <<>> => Occurred("final_batch")
    /\ Occurred("writer_exit") => Occurred("sentinel")
    /\ mpc = "done" => (wpc = "failed" \/ Occurred("writer_exit"))

EndOfStream ==
    /\ \A i \in 1 .. Len(puts) : puts[i].none => i = Len(puts)
    /\ mpc \in {"join", "done"} <=> (puts # <<>> /\ puts[Len(puts)].none)
    /\ (mpc \in {"join", "done"} /\ batch_rows # <<>>) =>
          (Len(puts) >= 2 /\ puts[Len(puts) - 1] = Batch(batch_rows))
    /\ Len(csv_queue) <= Len(puts)
    /\ csv_queue = SubSeq(puts, Len(puts) - Len(csv_queue) + 1, Len(puts))
    /\ wpc \in {"close", "exited"} =>
          (puts # <<>> /\ puts[Len(puts)].none /\ csv_queue = <<>>)

\* the writer has left its loop after two batches and the sentinel
EndOfStreamWitness ==
    /\ wpc = "exited"
    /\ Len(puts) = 3
    /\ Len(puts[2].rows) < BATCH_WRITE_SIZE
    /\ puts[3].none

\* ------------------------------------------------------------------------
\* C9  Backpressure: the queue never holds more than CSV_QUEUE_MAXSIZE items; while it
\* is full no put completes and the aggregator, waiting in put, consumes no worker
\* result; while it is empty the writer's get does not return.
\* ------------------------------------------------------------------------
Backpressure ==
    /\ Len(csv_queue) <= CSV_QUEUE_MAXSIZE
    /\ Len(csv_queue) >= CSV_QUEUE_MAXSIZE =>
          /\ ~ENABLED M_Put
          /\ ~ENABLED M_PutNone
          /\ batch_rows # <<>> => ~ENABLED M_Final
    /\ mpc = "put" => \A i \in Files : ~ENABLED M_Collect(i)
    /\ csv_queue = <<>> => ~ENABLED W_Get

\* the aggregator waits in put on a full queue while a worker result is ready
BackpressureWitness ==
    /\ mpc = "put"
    /\ Len(csv_queue) = CSV_QUEUE_MAXSIZE
    /\ \E i \in Files : task[i] = "done"

\* ------------------------------------------------------------------------
\* C11  Worker-crash isolation: when a worker process dies while inspecting a file,
\* the controlling run is not taken down - it goes on to the final batch, the sentinel
\* and the join.  (As claimed; the run is in fact ended by the exception.)
\* ------------------------------------------------------------------------
WorkerCrashIsolation ==
    (\E i \in Files : task[i] = "failed") => mpc \notin {"raised", "dead"}

\* ------------------------------------------------------------------------
\* C12  Failure isolation: when a run in whose tree some files cannot be opened has
\* completed cleanly, every file of the tree has its row in the artifact, and the row
\* of a file that could not be opened says can_open = False with an error message
\* that is not empty.
\* ------------------------------------------------------------------------
FailureIsolation ==
    CleanlyCompleted =>
        \A f \in Files :
            \E i \in 1 .. Len(disk) :
                /\ LineStart(disk, i)
                /\ disk[i].k = "R"
                /\ disk[i].p = Identity(f)
                /\ docs[f].open # "ok" =>
                       /\ disk[i].info.can_open = FALSE
                       /\ disk[i].info.error_message # ""

\* a run over a tree with a file that opens and a file that does not has completed
FailureIsolationWitness ==
    /\ CleanlyCompleted
    /\ \E f, g \in Files : docs[f].open # "ok" /\ docs[g].open = "ok"

\* ------------------------------------------------------------------------
\* C13  process_single_pdf never lets an exception through: whatever stat, fitz.open,
\* is_encrypted, page_count and the close of the document do, the call returns a
\* record with the seven fields.
\* ------------------------------------------------------------------------
NeverPropagates ==
    outcome.called =>
        /\ ~outcome.raised
        /\ DOMAIN outcome.info = {"file_path", "file_size_bytes", "can_open", "page_count",
                                  "processing_time", "error_message", "category"}

\* the call has returned for a file on which one of the five calls raised
NeverPropagatesWitness ==
    /\ outcome.called
    /\ \E f \in Files :
           \/ docs[f].stat # "ok"
           \/ docs[f].stat = "ok" /\ docs[f].size >= 100 /\ docs[f].open = "ok"
              /\ docs[f].close # "ok"

\* ------------------------------------------------------------------------
\* C14  Invariant of the returned record on every path: can_open implies an empty
\* error_message and a category other than 'N/A'; category 'N/A' implies not can_open.
\* (As claimed; it fails when the close of the document raises after can_open was set.)
\* ------------------------------------------------------------------------
ResultInvariant ==
    outcome.called =>
        /\ outcome.info.can_open =>
               outcome.info.error_message = "" /\ outcome.info.category # "N/A"
        /\ outcome.info.category = "N/A" => ~outcome.info.can_open

\* ------------------------------------------------------------------------
\* C15  Category correctness: for a file that opened, the page letter is 'L' exactly
\* when the page count is more than 100 and the size letter is 'L' exactly when the
\* size is more than 10 * 1024 * 1024 bytes: 100 pages and 10 MiB both give 'S'.
\* ------------------------------------------------------------------------
CategoryCorrectness ==
    outcome.called /\ outcome.info.can_open =>
        \A f \in Files :
            LET manyPages == docs[f].page_count > 100
                bigFile == docs[f].size > 10 * 1024 * 1024
            IN  outcome.info.category =
                    (IF manyPages /\ bigFile THEN "L-L"
                     ELSE IF manyPages THEN "L-S"
                     ELSE IF bigFile THEN "S-L" ELSE "S-S")

\* a file of exactly 100 pages and exactly 10 MiB has been classified
CategoryCorrectnessWitness ==
    /\ outcome.called
    /\ outcome.info.can_open
    /\ \E f \in Files : docs[f].page_count = 100 /\ docs[f].size = 10 * 1024 * 1024

\* ------------------------------------------------------------------------
\* C16  Ledger load tolerance: the load returns the empty set when the artifact is
\* missing, and, from an artifact that begins with the header, the identity of every
\* well-formed row - a line that cannot be read is skipped alone, and the rows after
\* it are in the set.  (As claimed; the read stops at the first such line.)
\* ------------------------------------------------------------------------
LedgerTolerance ==
    mpc = "start_writer" /\ resume =>
        /\ ~exists => processed = {}
        /\ exists /\ disk # <<>> /\ disk[1] = HeaderTok =>
               \A i \in 2 .. Len(disk) :
                   disk[i].k = "R" /\ LineStart(disk, i) => normcase(disk[i].p) \in processed

\* ------------------------------------------------------------------------
\* C17  Single writer: every step that creates the artifact, writes to its file object
\* or changes its content is a step of the writer thread, the controlling thread
\* standing still; and the controlling thread's one read of the artifact, the ledger
\* load, happens before the writer thread is started.
\* ------------------------------------------------------------------------
SingleWriter ==
    [][/\ (disk' # disk \/ exists' # exists \/ buf' # buf) =>
              /\ wpc \in {"open", "header", "write", "close"}
              /\ mainVars' = mainVars
       /\ mpc' = "load" => wpc' = "none" /\ disk' = disk]_vars

\* rows have reached the artifact while the controlling thread is collecting results
SingleWriterWitness == mpc = "collect" /\ disk # <<>> /\ wpc \in {"get", "write"}

\* ------------------------------------------------------------------------
\* C18  Scan dedup: one call of find_pdf_files never yields two paths with the same
\* os.path.normcase, on the rglob path, on the find path, and when find fails
\* part-way and the rglob walk takes over.
\* ------------------------------------------------------------------------
ScanDedup ==
    \A i, j \in 1 .. Len(yielded) :
        i # j => os_normcase(yielded[i].path) # os_normcase(yielded[j].path)

\* find failed after it had reported a file, and the walk that took over has passed
\* over that file and yielded another entry
ScanDedupWitness ==
    /\ spc = "done_fallback"
    /\ root = "/r"
    /\ \E i, j \in 1 .. Len(yielded) : yielded[i].by = "find" /\ yielded[j].by = "rglob"

\* ------------------------------------------------------------------------
\* C19  Enumeration equivalence: on a tree of regular files, directories and symbolic
\* links whose names match the extension, the find path yields the same set of
\* normalised paths as the rglob walk would.  (As claimed; find reports regular
\* files only, and spells the paths under "." differently.)
\* ------------------------------------------------------------------------
EnumerationEquivalence ==
    spc = "done" /\ platform = "posix" =>
        {os_normcase(yielded[i].path) : i \in 1 .. Len(yielded)}
            = {os_normcase(WalkStr(n)) : n \in WalkSet}

\* ------------------------------------------------------------------------
\* C20  Row order and append-only: what the artifact held when the run started is
\* still there, unchanged, before everything the run appended; and what the run has
\* written after it (in the file or still in the file object's buffer) is, after the
\* header of a new file, the rows of the results in the order the aggregator received
\* them - all of them once the run has completed cleanly.  A write that failed may
\* leave the beginning of the next row, in its place.
\* ------------------------------------------------------------------------
RowOrder ==
    /\ Len(disk) >= Len(disk0)
    /\ SubSeq(disk, 1, Len(disk0)) = disk0
    /\ LET app == SubSeq(disk, Len(disk0) + 1, Len(disk)) \o buf
           body == IF app # <<>> /\ app[1].k = "H" THEN Tail(app) ELSE app
       IN  /\ Len(body) <= Len(received)
           /\ \A n \in 1 .. Len(body) :
                  \/ body[n].k = "R" /\ body[n].info = received[n]
                  \/ /\ body[n].k \in {"Pin", "Paf"}
                     /\ body[n].p = received[n].file_path
                     /\ n = Len(body)
                     /\ wpc = "failed"
           /\ CleanlyCompleted =>
                  /\ Len(body) = Len(received)
                  /\ \A n \in 1 .. Len(body) : body[n].k = "R"

\* a run that found rows in the artifact has completed, having received three results
\* in an order other than the order of submission and handed them over in two batches
RowOrderWitness ==
    /\ CleanlyCompleted
    /\ disk0 # <<>>
    /\ Len(received) = 3
    /\ received[1].file_path[2] > received[2].file_path[2]
    /\ Len(puts) = 3

\* ------------------------------------------------------------------------
\* C21  Aggregator batching.
\* ------------------------------------------------------------------------

\* the rows of the items q, one after the other
RECURSIVE Flat(_)
Flat(q) == IF q = <<>> THEN <<>> ELSE Head(q).rows \o Flat(Tail(q))

\* the results received and not yet handed to the queue
NotHandedOver == SubSeq(received, Len(Flat(puts)) + 1, Len(received))

\* every batch put is non-empty and of at most BATCH_WRITE_SIZE rows
BatchSizes ==
    \A n \in 1 .. Len(puts) :
        ~puts[n].none => Len(puts[n].rows) \in 1 .. BATCH_WRITE_SIZE

\* an item is on the queue, and reaches the writer, as it was when it was put
Snapshots ==
    LET k == Len(puts) - Len(csv_queue)
    IN  /\ k >= 0
        /\ csv_queue = SubSeq(puts, k + 1, Len(puts))
        /\ wpc = "write" =>
               /\ k >= 1
               /\ \E m \in 1 .. Len(puts[k].rows) :
                      rows = SubSeq(puts[k].rows, m, Len(puts[k].rows))

\* when the sentinel is put, every result received has been put before it, in order
FlushedBeforeSentinel ==
    \A n \in 1 .. Len(puts) :
        puts[n].none => n = Len(puts) /\ Flat(puts) = received

\* C21 as claimed: batches are non-empty, of at most BATCH_WRITE_SIZE rows and
\* unchanged once put; after each hand-off the working list is empty (it holds the
\* results not yet handed over, and no others); the partial batch is put before
\* the sentinel.
ClaimedBatching ==
    /\ BatchSizes
    /\ Snapshots
    /\ batch_rows = NotHandedOver
    /\ FlushedBeforeSentinel

\* C21 amended: as claimed, but the working list is empty after each hand-off of a
\* full batch only - the final partial batch is put and the list is left as it is.
Batching ==
    /\ BatchSizes
    /\ Snapshots
    /\ mpc \notin {"put_none", "join", "done"} => batch_rows = NotHandedOver
    /\ mpc \in {"put_none", "join", "done"} =>
           /\ NotHandedOver = <<>>
           /\ \/ batch_rows = <<>>
              \/ \E n \in 1 .. Len(puts) :
                     /\ ~puts[n].none
                     /\ batch_rows = puts[n].rows
                     /\ \A m \in n + 1 .. Len(puts) : puts[m].none
    /\ FlushedBeforeSentinel

\* a run has completed after a full batch, a partial batch and the sentinel
BatchingWitness ==
    /\ CleanlyCompleted
    /\ Len(puts) = 3
    /\ Len(puts[1].rows) = BATCH_WRITE_SIZE
    /\ Len(puts[2].rows) \in 1 .. BATCH_WRITE_SIZE - 1
    /\ batch_rows = puts[2].rows

\* ------------------------------------------------------------------------
\* C22  Submission throttling in v3: the tasks submitted and not yet consumed are
\* never more than workers x 10 (here workers x WAVE_FACTOR); and a wave is drained
\* before the next one begins - nothing is outstanding while paths are taken from
\* the generator for the next wave, nor after the last drain.
\* ------------------------------------------------------------------------
Throttling ==
    /\ Cardinality(Unconsumed) <= Workers * WAVE_FACTOR
    /\ Cardinality(Unconsumed) + Len(pdf_batch) <= Workers * WAVE_FACTOR
    /\ mpc \in {"gen", "final3", "pool_exit3", "put_none", "join", "done"} => Unconsumed = {}

\* a second wave is being drained: a full wave is outstanding after an earlier one was consumed
ThrottlingWitness ==
    /\ mpc = "wave_drain"
    /\ Cardinality(Unconsumed) = Workers * WAVE_FACTOR
    /\ \E i \in Files : task[i] = "consumed"

\* ------------------------------------------------------------------------
\* C23  Conservation: when process_pdfs has returned normally, the data rows the run
\* appended to the artifact are, as a multiset, the results the workers returned,
\* one for each file that passed the ledger filter and none for the others, and
\* their number is stats["processed"] and the sum of the category counts.  (As
\* claimed; process_pdfs also returns normally after its writer thread has failed.)
\* ------------------------------------------------------------------------

\* the number of times x occurs in the sequence q
Count(q, x) == Cardinality({n \in 1 .. Len(q) : q[n] = x})

\* the records of the complete data rows the current run has appended
AppendedRows ==
    LET app == SubSeq(disk, Len(disk0) + 1, Len(disk))
        at == {n \in 1 .. Len(app) : app[n].k = "R"}
        nth[n \in 0 .. Len(app)] ==
            IF n = 0 THEN <<>>
            ELSE IF n \in at THEN Append(nth[n - 1], app[n].info) ELSE nth[n - 1]
    IN  nth[Len(app)]

Conservation ==
    mpc = "done" =>
        /\ \A n \in 1 .. Len(received) :
               Count(AppendedRows, received[n]) = Count(received, received[n])
        /\ Len(AppendedRows) = Len(received)
        /\ \A f \in Files :
               Count([n \in 1 .. Len(received) |-> received[n].file_path], PathStr(FindPath(f)))
                   = IF normcase(FindPath(f)) \in processed THEN 0 ELSE 1
        /\ Len(AppendedRows) = stats.processed
        /\ Len(AppendedRows) = stats.category_counts["S-S"] + stats.category_counts["S-L"]
                                  + stats.category_counts["L-S"] + stats.category_counts["L-L"]
                                  + stats.category_counts["N/A"]

\* ------------------------------------------------------------------------
\* C24  Termination without deadlock: in a run without I/O errors, under fair
\* scheduling, the aggregator blocked on a full queue is eventually released, the
\* writer eventually receives the sentinel, and process_pdfs, once started,
\* eventually returns with its writer thread ended.
\* ------------------------------------------------------------------------
Termination ==
    /\ (mpc = "put" /\ ~CanPut(csv_queue)) ~> (mpc = "collect")
    /\ (mpc = "load") ~> (wpc = "close")
    /\ (mpc = "load") ~> (mpc = "done" /\ wpc = "exited")

\* the aggregator is blocked: it has a full batch to put and the queue is full
TerminationWitness ==
    /\ mpc = "put"
    /\ ~CanPut(csv_queue)
    /\ Len(batch_rows) = BATCH_WRITE_SIZE

\* C25 (writer-variant equivalence): from the same initial artifact and the same
\* sequence of worker results, when the run has completed cleanly the artifact left
\* by the per-batch writer of v2 is identical to the one left by the queue writer of
\* v3: both exist or neither does, and their contents are the same lines in the same
\* order, including when no result at all was produced.
WriterEquivalence ==
    CleanlyCompleted => (v2.exists = exists /\ v2.disk = disk)

-----------------------------------------------------------------------------
\* gen_pdfs.py: chunked generation of numbered PDF files with a progress marker.
\* gen.made is the set of indices whose file is on disk, gen.saved the number in
\* .progress.json (NoProgress when the file is missing), gen.futures the submitted
\* chunks in submission order, each with its range, the next index its worker will
\* write, the number it has generated, and its state.

GenTotal == 5
GenChunk == 2
GenWorkers == 2
GenRuns == 2

\* no .progress.json
NoProgress == -1

\* everything but gen
pipeline == <<persistent, mainVars, writerVars, histVars, scanVars, docs, outcome, run, task,
              pool, csv_queue, events, puts, received, pdf_batch, v2>>

\* list(chunk_ranges(total, chunk_size)): the ranges [start, min(start + chunk_size, total))
chunk_ranges(total, chunk_size) ==
    [j \in 1 .. ((total + chunk_size - 1) \div chunk_size) |->
        [s |-> (j - 1) * chunk_size,
         e |-> IF j * chunk_size < total THEN j * chunk_size ELSE total]]

\* load_progress: 0 when the file is missing, else the number it holds
load_progress(progress_file) == IF progress_file = NoProgress THEN 0 ELSE progress_file

\* the ranges of this invocation
ranges == chunk_ranges(gen.total, gen.chunk_size)

\* the futures with a worker process on them
GenRunning == {j \in 1 .. Len(gen.futures) : gen.futures[j].st = "running"}

\* main() up to the with block: generated_total = load_progress(..) if args.resume else 0
G_Start(r) ==
    /\ gen.pc = "idle"
    /\ gen.runs < GenRuns
    /\ gen' = [gen EXCEPT !.pc = "submit",
                          !.runs = @ + 1,
                          !.resume = r,
                          !.generated_total = IF r THEN load_progress(gen.saved) ELSE 0,
                          !.k = 1,
                          !.futures = <<>>]
    /\ UNCHANGED pipeline

\* one turn of for s, e in ranges: the chunk is skipped when e <= generated_total,
\* otherwise submitted from max(s, generated_total)
G_Submit ==
    /\ gen.pc = "submit"
    /\ gen.k <= Len(ranges)
    /\ LET c == ranges[gen.k]
           s_adjusted == IF c.s > gen.generated_total THEN c.s ELSE gen.generated_total
       IN  IF c.e <= gen.generated_total
           THEN gen' = [gen EXCEPT !.k = @ + 1]
           ELSE gen' = [gen EXCEPT !.k = @ + 1,
                                   !.futures = @ \o <<[s |-> s_adjusted, e |-> c.e,
                                                       idx |-> s_adjusted, generated |-> 0,
                                                       st |-> "pending"]>>]
    /\ UNCHANGED pipeline

\* the for loop over ranges is exhausted: main reaches as_completed(futures)
G_Submitted ==
    /\ gen.pc = "submit"
    /\ gen.k > Len(ranges)
    /\ gen' = [gen EXCEPT !.pc = "collect"]
    /\ UNCHANGED pipeline

\* a free process of the pool takes the oldest pending chunk
G_WorkerStart(j) ==
    /\ gen.pc \in {"submit", "collect"}
    /\ j \in 1 .. Len(gen.futures)
    /\ gen.futures[j].st = "pending"
    /\ \A h \in 1 .. (j - 1) : gen.futures[h].st # "pending"
    /\ Cardinality(GenRunning) < GenWorkers
    /\ gen' = [gen EXCEPT !.futures[j].st = "running"]
    /\ UNCHANGED pipeline

\* worker_generate, one turn of for idx in range(start_idx, end_idx): the file of idx
\* is written and counted; after the last index the call returns its count
G_Generate(j) ==
    /\ gen.pc \in {"submit", "collect"}
    /\ j \in GenRunning
    /\ LET f == gen.futures[j]
       IN  gen' = [gen EXCEPT !.made = @ \cup {f.idx},
                              !.futures[j].idx = f.idx + 1,
                              !.futures[j].generated = f.generated + 1,
                              !.futures[j].st = IF f.idx + 1 = f.e THEN "finished"
                                                ELSE "running"]
    /\ UNCHANGED pipeline

\* for fut in as_completed(futures): generated_total += gen;
\* save_progress(progress_file, generated_total)
G_Collect(j) ==
    /\ gen.pc = "collect"
    /\ j \in 1 .. Len(gen.futures)
    /\ gen.futures[j].st = "finished"
    /\ gen' = [gen EXCEPT !.generated_total = @ + gen.futures[j].generated,
                          !.saved = gen.generated_total + gen.futures[j].generated,
                          !.futures[j].st = "consumed"]
    /\ UNCHANGED pipeline

\* every future has been consumed: the with block exits and main returns
G_Exit ==
    /\ gen.pc = "collect"
    /\ \A j \in 1 .. Len(gen.futures) : gen.futures[j].st = "consumed"
    /\ gen' = [gen EXCEPT !.pc = "done"]
    /\ UNCHANGED pipeline

\* the generator and its pool are killed: files written and the marker stay
G_Kill ==
    /\ gen.pc \in {"submit", "collect"}
    /\ gen' = [gen EXCEPT !.pc = "idle", !.killed = TRUE, !.futures = <<>>]
    /\ UNCHANGED pipeline

InitGen ==
    /\ nfiles = 0
    /\ root \in Roots
    /\ exists = FALSE
    /\ disk = <<>>
    /\ run = 0
    /\ mpc = "idle"
    /\ NoRun
    /\ docs = [i \in Files |-> GoodDoc]
    /\ outcome = NotCalled
    /\ NoScan
    /\ pdf_batch = <<>>
    /\ v2 = [exists |-> FALSE, disk |-> <<>>]
    /\ \E t \in 0 .. GenTotal, c \in 1 .. GenChunk :
          gen = [GenIdle EXCEPT !.total = t, !.chunk_size = c]
    /\ disk0 = <<>>
    /\ prevClean = FALSE
    /\ prevKilled = FALSE

NextGen ==
    \/ \E r \in BOOLEAN : G_Start(r)
    \/ G_Submit
    \/ G_Submitted
    \/ \E j \in 1 .. Len(gen.futures) : G_WorkerStart(j)
    \/ \E j \in 1 .. Len(gen.futures) : G_Generate(j)
    \/ \E j \in 1 .. Len(gen.futures) : G_Collect(j)
    \/ G_Exit
    \/ G_Kill

GenSpec == InitGen /\ [][NextGen]_vars

\* C26 (generator resume): when a generation run was killed and a later run with
\* --resume has completed, the file of every index in [0, total) has been generated;
\* and the count in the progress marker is a prefix length: the file of every index
\* below it has been generated.
GeneratorResume ==
    /\ (gen.pc = "done" /\ gen.resume /\ gen.killed) => gen.made = 0 .. (gen.total - 1)
    /\ \A i \in 0 .. (load_progress(gen.saved) - 1) : i \in gen.made

====
